---- MODULE Spec2Model ----
(***************************************************************************)
(* wayback-discover-diff: the simhash fingerprint engine (pkg/simhash),    *)
(* the snapshot worker (pkg/worker) and the job submission handler         *)
(* (internal/handler), as state machines.                                  *)
(*                                                                         *)
(* A uint64 is modelled as the set of its set bit positions (a subset of   *)
(* 0..63), a byte as a number 0..255, a Go string as a tuple of one-letter *)
(* strings, a map[string]int as a function whose domain is the key set.    *)
(***************************************************************************)
EXTENDS Integers, Sequences, FiniteSets, TLC

VARIABLES
    \* ---- simhash.CalculateSimHash, one call, statement by statement
    blake,        \* blake2b.Sum512 as a table: token -> 64 digest bytes
    hFeatures,    \* argument features (map[string]int)
    hSize,        \* argument size, as passed by the caller
    size,         \* the local size after the clamp of lines 69-71
    vectors,      \* vectors []int
    hTodo,        \* keys of features the range loop has not visited yet
    simhash,      \* the result
    hpc,          \* position in CalculateSimHash
    \* ---- simhash.EncodeSimHash / DecodeSimHash, one round trip
    cIn,          \* the fingerprint handed to EncodeSimHash
    cShort,       \* number of bytes encoded (8 for EncodeSimHash itself)
    encoded,      \* the string handed to DecodeSimHash
    decoded,      \* what DecodeSimHash returned: [simhash, err]
    cpc,          \* position in the round trip
    \* ---- the process: configuration, the Worker, Redis
    AppConfig,    \* config.AppConfig: [MaxErrors]
    downloadErrs, \* Worker.downloadErrs, the one counter of the one Worker
    redis,        \* the store: key -> value, Nil for an absent key
    \* ---- one HandleCalculateSimHash invocation per worker slot
    pc,           \* position of the slot's job in the handler
    ctx,          \* the job's context: "active" or its ctx.Err()
    snapshots,    \* the timestamps getSnapshots returned
    idx,          \* captures of the list the range loop has finished with
    content,      \* what downloadSnapshot returned for the current capture
    outcome,      \* what the handler returned
    err,          \* what processSnapshot returned for the capture that failed
    \* ---- bookkeeping the claims are stated on (not read by any action)
    jobs,         \* handler invocations started so far
    before,       \* per job: the timestamps in the store when it started
    nFailed,      \* per job: its own captures that failed
    failedAt,     \* per job: the timestamps of its failed captures
    attempted,    \* per job: the timestamps processSnapshot was called with
    skipped,      \* per job: timestamps found present by the existence check
    wrote,        \* per job: timestamp -> value its Set calls stored
    writes,       \* per key: Set calls that stored a value
    \* ---- simhash.ExtractHTMLFeatures, one call
    eDoc,         \* the tree html.Parse returned for htmlContent
    eFeatures,    \* the map the call returned
    epc,          \* position in the call
    \* ---- handler.CalculateSimHash, one invocation per request
    taskKey,      \* the store: value under task:<url>:<year>, Nil when absent
    queue,        \* the task ids handed to taskClient.Enqueue, in order
    rpc,          \* position of each request in the handler
    taskID,       \* the request's local taskID
    response      \* what the request answered: [code, status, job_id]

hashVars == <<blake, hFeatures, hSize, size, vectors, hTodo, simhash, hpc>>
codecVars == <<cIn, cShort, encoded, decoded, cpc>>
sharedVars == <<AppConfig, downloadErrs, redis>>
jobVars == <<pc, ctx, snapshots, idx, content, outcome, err>>
bookVars == <<jobs, before, nFailed, failedAt, attempted, skipped, wrote, writes>>
extractVars == <<eDoc, eFeatures, epc>>
handlerVars == <<taskKey, queue, rpc, taskID, response>>
workerVars == <<sharedVars, jobVars, bookVars>>
vars == <<hashVars, codecVars, extractVars, handlerVars, workerVars>>

----------------------------------------------------------------------------
(* Bounds of the model. *)

\* largest weight of a token in an input multiset of CalculateSimHash
MaxWeight == 2
\* fingerprints fed to EncodeSimHash: at most MaxSetBits bits set, or all
\* but at most MaxSetBits bits set
MaxSetBits == 1
\* handler invocations in one run
MaxJobs == 2
\* config.AppConfig.MaxErrors ranges over 0 .. MaxErrorsTop
MaxErrorsTop == 2
\* data rows of an index response when jobs run one after another
MaxRowsSeq == 3
\* data rows of an index response when jobs run at the same time
MaxRowsConc == 2
\* the runs under fair scheduling: config.AppConfig.MaxErrors ranges over
\* 1 .. MaxErrorsFair, an index response has up to MaxRowsFair data rows over
\* the first TimestampsFair timestamps
MaxErrorsFair == 2
MaxRowsFair == 2
TimestampsFair == 1
\* items in the body of a document handed to ExtractHTMLFeatures
MaxKids == 2
\* requests to Handler.CalculateSimHash in one run
MaxRequests == 3

----------------------------------------------------------------------------
(* uint64 and byte arithmetic on bit sets. *)

WordBits == 64
ByteBits == 8

BitPositions == 0 .. (WordBits - 1)

\* x >> n on a uint64
ShiftRight(x, n) == {b - n : b \in {c \in x : c >= n}}

\* x << n on a uint64: bits shifted past bit 63 are lost
ShiftLeft(x, n) == {b + n : b \in {c \in x : c + n < WordBits}}

RECURSIVE SumPow2(_)
SumPow2(s) ==
    IF s = {} THEN 0
    ELSE LET b == CHOOSE x \in s : TRUE IN 2^b + SumPow2(s \ {b})

\* byte(x): the low 8 bits of a uint64, as a number
ToByte(x) == SumPow2(x \cap (0 .. (ByteBits - 1)))

\* uint64(b) of a byte b
FromByte(b) == {k \in 0 .. (ByteBits - 1) : (b \div (2^k)) % 2 = 1}

----------------------------------------------------------------------------
(* encoding/base64, StdEncoding: the alphabet of RFC 4648 with '=' padding. *)

Base64Alphabet ==
    << "A","B","C","D","E","F","G","H","I","J","K","L","M","N","O","P",
       "Q","R","S","T","U","V","W","X","Y","Z","a","b","c","d","e","f",
       "g","h","i","j","k","l","m","n","o","p","q","r","s","t","u","v",
       "w","x","y","z","0","1","2","3","4","5","6","7","8","9","+","/" >>

Base64Pad == "="

Base64Char(v) == Base64Alphabet[v + 1]

Base64Index(c) == (CHOOSE i \in 1 .. Len(Base64Alphabet) : Base64Alphabet[i] = c) - 1

IsBase64Char(c) == \E i \in 1 .. Len(Base64Alphabet) : Base64Alphabet[i] = c

\* base64.StdEncoding.EncodeToString
RECURSIVE Base64Encode(_)
Base64Encode(bytes) ==
    IF Len(bytes) = 0 THEN << >>
    ELSE IF Len(bytes) = 1 THEN
        LET val == bytes[1] * 65536
        IN  << Base64Char(val \div 262144), Base64Char((val \div 4096) % 64),
               Base64Pad, Base64Pad >>
    ELSE IF Len(bytes) = 2 THEN
        LET val == bytes[1] * 65536 + bytes[2] * 256
        IN  << Base64Char(val \div 262144), Base64Char((val \div 4096) % 64),
               Base64Char((val \div 64) % 64), Base64Pad >>
    ELSE
        LET val == bytes[1] * 65536 + bytes[2] * 256 + bytes[3]
        IN  << Base64Char(val \div 262144), Base64Char((val \div 4096) % 64),
               Base64Char((val \div 64) % 64), Base64Char(val % 64) >>
            \o Base64Encode(SubSeq(bytes, 4, Len(bytes)))

\* one quantum of four characters; the last quantum may be padded
Base64QuantumOk(q, last) ==
    \/ \A i \in 1 .. 4 : IsBase64Char(q[i])
    \/ /\ last
       /\ IsBase64Char(q[1]) /\ IsBase64Char(q[2])
       /\ \/ IsBase64Char(q[3]) /\ q[4] = Base64Pad
          \/ q[3] = Base64Pad /\ q[4] = Base64Pad

Base64QuantumBytes(q) ==
    LET v(i) == IF IsBase64Char(q[i]) THEN Base64Index(q[i]) ELSE 0
        val == v(1) * 262144 + v(2) * 4096 + v(3) * 64 + v(4)
        all == << val \div 65536, (val \div 256) % 256, val % 256 >>
    IN  IF q[3] = Base64Pad THEN SubSeq(all, 1, 1)
        ELSE IF q[4] = Base64Pad THEN SubSeq(all, 1, 2)
        ELSE all

\* base64.StdEncoding.DecodeString: [bytes, err]
RECURSIVE Base64Decode(_)
Base64Decode(s) ==
    IF Len(s) = 0 THEN [bytes |-> << >>, err |-> FALSE]
    ELSE IF Len(s) < 4 THEN [bytes |-> << >>, err |-> TRUE]
    ELSE
        LET q == SubSeq(s, 1, 4)
            last == Len(s) = 4
        IN  IF ~Base64QuantumOk(q, last) THEN [bytes |-> << >>, err |-> TRUE]
            ELSE LET rest == Base64Decode(SubSeq(s, 5, Len(s)))
                 IN  IF rest.err THEN [bytes |-> << >>, err |-> TRUE]
                     ELSE [bytes |-> Base64QuantumBytes(q) \o rest.bytes,
                           err |-> FALSE]

----------------------------------------------------------------------------
(* simhash.EncodeSimHash / simhash.DecodeSimHash *)

EncodedLen == 8

\* the bytes in the opposite order: byte i from bits [8(7-i), 8(7-i)+8)
SimHashBytesBigEndian(x) ==
    [i \in 1 .. EncodedLen |-> ToByte(ShiftRight(x, (EncodedLen - i) * ByteBits))]

\* bytes[i] = byte(simhash >> uint(i*8)), i = 0..7
SimHashBytes(x) ==
    [i \in 1 .. EncodedLen |-> ToByte(ShiftRight(x, (i - 1) * ByteBits))]

EncodeSimHash(x) == Base64Encode(SimHashBytes(x))

\* simhash |= uint64(bytes[i]) << uint(i*8) for i < len(bytes) && i < 8
RECURSIVE OrBytes(_, _)
OrBytes(bytes, n) ==
    IF n = 0 THEN {}
    ELSE OrBytes(bytes, n - 1)
            \cup ShiftLeft(FromByte(bytes[n]), (n - 1) * ByteBits)

DecodeSimHash(s) ==
    LET r == Base64Decode(s)
        n == IF Len(r.bytes) < EncodedLen THEN Len(r.bytes) ELSE EncodedLen
    IN  IF r.err THEN [simhash |-> {}, err |-> TRUE]
        ELSE [simhash |-> OrBytes(r.bytes, n), err |-> FALSE]

----------------------------------------------------------------------------
(* simhash.CalculateSimHash / simhash.toBits *)

MaxSize == 64

\* blake2b.Sum512 returns 64 bytes
DigestLen == 64

\* The tokens of the model (Go strings, letter by letter).
Tokens == { <<"h","i">>, <<"y","o">>, <<"a">> }

\* A digest is fixed by its first byte; the other 63 bytes follow from it.
DigestSeeds == {0, 90, 165, 255}
DigestOf(seed) == [k \in 1 .. DigestLen |-> (seed + 37 * (k - 1) * (k - 1)) % 256]
Digests == {[t \in Tokens |-> DigestOf(s[t])] : s \in [Tokens -> DigestSeeds]}

\* the digest table of the runs in which the digest is not the subject
DefaultBlake ==
    [t \in Tokens |-> DigestOf(IF t = <<"h","i">> THEN 165
                               ELSE IF t = <<"y","o">> THEN 90 ELSE 255)]

\* the size arguments of the model: below, at and above each edge
Sizes == {-1, 0, 1, 9, 64, 65}

\* lines 69-71
ClampSize(sz) == IF sz > MaxSize THEN MaxSize ELSE sz

\* toBits(hash, size): bit i is bit 7-(i%8) of byte i/8
toBits(hash, sz) ==
    [i \in 0 .. (sz - 1) |->
        IF i < Len(hash) * ByteBits
        THEN (hash[(i \div ByteBits) + 1] \div (2^(7 - (i % ByteBits)))) % 2 = 1
        ELSE FALSE]

\* the inner loop with "=" for "+=" on the set-bit branch
AddFeatureOverwrite(vec, hashBits, weight, sz) ==
    [i \in 0 .. (sz - 1) |->
        IF hashBits[i] THEN weight ELSE vec[i] - weight]

\* lines 82-88: the inner loop over the bit positions for one feature
AddFeature(vec, hashBits, weight, sz) ==
    [i \in 0 .. (sz - 1) |->
        IF hashBits[i] THEN vec[i] + weight ELSE vec[i] - weight]

\* the final loop with ">= 0" for "> 0"
BuildSimHashTies(vec, sz) == {i \in 0 .. (sz - 1) : vec[i] >= 0}

\* lines 92-97: the final hash from the accumulator
BuildSimHash(vec, sz) == {i \in 0 .. (sz - 1) : vec[i] > 0}

\* lines 76-89 in one fixed visiting order, Sum512 being the table sum512
RECURSIVE Accumulate(_, _, _, _, _)
Accumulate(sum512, features, todo, vec, sz) ==
    IF todo = {} THEN vec
    ELSE LET text == CHOOSE t \in todo : TRUE
         IN  Accumulate(sum512, features, todo \ {text},
                        AddFeature(vec, toBits(sum512[text], sz), features[text], sz),
                        sz)

\* CalculateSimHash(features, size) with Sum512 the table sum512:
\* [panic, simhash]; make([]int, size) panics for a negative size
SimHashOf(sum512, features, sz) ==
    LET n == ClampSize(sz)
    IN  IF n < 0 THEN [panic |-> TRUE, simhash |-> {}]
        ELSE [panic |-> FALSE,
              simhash |-> BuildSimHash(
                  Accumulate(sum512, features, DOMAIN features,
                             [i \in 0 .. (n - 1) |-> 0], n),
                  n)]

CalculateSimHash(features, sz) == SimHashOf(blake, features, sz)

\* every map[string]int over Tokens with weights 1..MaxWeight
FeatureMaps ==
    {[t \in {u \in Tokens : w[u] > 0} |-> w[t]] : w \in [Tokens -> 0 .. MaxWeight]}

----------------------------------------------------------------------------
(* simhash.ExtractHTMLFeatures.  html.Parse is outside the repository: a   *)
(* document is given as the tree html.Parse returns for it.                *)

TextNode(data) == [Type |-> "TextNode", Data |-> data, Children |-> << >>]
ElementNode(tag, kids) == [Type |-> "ElementNode", Data |-> tag, Children |-> kids]
DocumentNode(kids) == [Type |-> "DocumentNode", Data |-> "", Children |-> kids]

UpperLetters ==
    << "A","B","C","D","E","F","G","H","I","J","K","L","M",
       "N","O","P","Q","R","S","T","U","V","W","X","Y","Z" >>
LowerLetters ==
    << "a","b","c","d","e","f","g","h","i","j","k","l","m",
       "n","o","p","q","r","s","t","u","v","w","x","y","z" >>

IsUpper(c) == \E i \in 1 .. Len(UpperLetters) : UpperLetters[i] = c
IsLetter(c) == IsUpper(c) \/ \E i \in 1 .. Len(LowerLetters) : LowerLetters[i] = c
IsSpace(c) == c \in {" ", "\n", "\t"}

\* strings.ToLower
ToLowerChar(c) ==
    IF IsUpper(c)
    THEN LowerLetters[CHOOSE i \in 1 .. Len(UpperLetters) : UpperLetters[i] = c]
    ELSE c
ToLower(s) == [i \in 1 .. Len(s) |-> ToLowerChar(s[i])]

\* strings.Contains
Contains(s, sub) ==
    \E i \in 1 .. (Len(s) - Len(sub) + 1) : SubSeq(s, i, i + Len(sub) - 1) = sub

\* strings.Fields: the maximal runs of non-space characters
RECURSIVE FieldsFrom(_, _, _)
FieldsFrom(s, i, cur) ==
    IF i > Len(s) THEN (IF cur = << >> THEN << >> ELSE << cur >>)
    ELSE IF IsSpace(s[i])
         THEN (IF cur = << >> THEN << >> ELSE << cur >>) \o FieldsFrom(s, i + 1, << >>)
         ELSE FieldsFrom(s, i + 1, Append(cur, s[i]))
Fields(s) == FieldsFrom(s, 1, << >>)

\* lines 51-56: every character that is no letter becomes a blank
MapWord(word) == [i \in 1 .. Len(word) |-> IF ~IsLetter(word[i]) THEN " " ELSE word[i]]

\* strings.TrimSpace
RECURSIVE TrimSpace(_)
TrimSpace(s) ==
    IF s = << >> THEN s
    ELSE IF IsSpace(s[1]) THEN TrimSpace(Tail(s))
    ELSE IF IsSpace(s[Len(s)]) THEN TrimSpace(SubSeq(s, 1, Len(s) - 1))
    ELSE s

RECURSIVE extractText(_)
RECURSIVE extractChildren(_, _)

\* extractText with the test of line 36 reduced to n.Data == "script"
extractTextScriptOnly(n) ==
    (IF n.Type = "TextNode" THEN n.Data \o << " " >> ELSE << >>)
    \o (IF n.Type = "ElementNode" /\ n.Data = "script"
        THEN << >>
        ELSE extractChildren(n.Children, 1))

\* lines 30-43: extractText, returning what it appends to the builder
extractText(n) ==
    (IF n.Type = "TextNode" THEN n.Data \o << " " >> ELSE << >>)
    \o (IF n.Type = "ElementNode" /\ (n.Data = "script" \/ n.Data = "style")
        THEN << >>
        ELSE extractChildren(n.Children, 1))
extractChildren(kids, i) ==
    IF i > Len(kids) THEN << >>
    ELSE extractText(kids[i]) \o extractChildren(kids, i + 1)

\* lines 49-62: features[word]++ for every word that survives
RECURSIVE CountWords(_, _, _)
CountWords(words, i, features) ==
    IF i > Len(words) THEN features
    ELSE LET word == TrimSpace(MapWord(words[i]))
         IN  IF word = << >> THEN CountWords(words, i + 1, features)
             ELSE IF word \in DOMAIN features
                  THEN CountWords(words, i + 1,
                                  [features EXCEPT ![word] = features[word] + 1])
                  ELSE CountWords(words, i + 1,
                                  [w \in DOMAIN features \cup {word} |->
                                      IF w = word THEN 1 ELSE features[w]])

\* ExtractHTMLFeatures of a parsed document
ExtractHTMLFeatures(doc) ==
    CountWords(Fields(ToLower(extractText(doc))), 1, << >>)

\* The documents the replay endpoint serves in the model, by name.
DocHello ==
    DocumentNode(<< ElementNode("html", <<
        ElementNode("head", << ElementNode("style", << TextNode(<<"a">>) >>) >>),
        ElementNode("body", <<
            ElementNode("p", << TextNode(<<"H","i"," ","y","o","!">>) >>),
            ElementNode("script", << TextNode(<<"a"," ","a">>) >>) >>) >>) >>)
DocOther ==
    DocumentNode(<< ElementNode("html", <<
        ElementNode("body", <<
            ElementNode("p", << TextNode(<<"a","\n","A",","," ","y","o">>) >>) >>) >>) >>)
DocBlank ==
    DocumentNode(<< ElementNode("html", <<
        ElementNode("body", <<
            TextNode(<<"4","2"," ","-">>),
            ElementNode("script", << TextNode(<<"h","i">>) >>) >>) >>) >>)

DocNames == {"hello", "other", "blank"}

\* html.Parse of the bytes of a served document
HTMLParse(name) ==
    IF name = "hello" THEN DocHello ELSE IF name = "other" THEN DocOther ELSE DocBlank

\* the sequences over S of length at most n
RECURSIVE SeqsUpTo(_, _)
SeqsUpTo(S, n) ==
    IF n = 0 THEN {<< >>}
    ELSE LET p == SeqsUpTo(S, n - 1)
         IN  p \cup {Append(q, x) : q \in p, x \in S}

\* The trees of the runs of ExtractHTMLFeatures, as html.Parse builds them:
\* html > head, body; the head empty or with one style element; the body one
\* div of up to MaxKids items, an item being a text or a p, script or style
\* element around a text.
Texts == { <<"H","i"," ","y","o","!">>, <<"y","o">> }
ItemTags == {"p", "script", "style"}
Items ==
    {TextNode(t) : t \in Texts}
    \cup {ElementNode(tag, << TextNode(t) >>) : tag \in ItemTags, t \in Texts}
Heads ==
    {<< >>} \cup {<< ElementNode("style", << TextNode(t) >>) >> : t \in Texts}
Page(head, items) ==
    DocumentNode(<< ElementNode("html", <<
        ElementNode("head", head),
        ElementNode("body", << ElementNode("div", items) >>) >>) >>)

----------------------------------------------------------------------------
(* One call of CalculateSimHash, statement by statement; the range loop    *)
(* over the map visits the keys in any order.                              *)

HashIdle ==
    /\ blake = DefaultBlake
    /\ hFeatures = << >>
    /\ hSize = 0
    /\ size = 0
    /\ vectors = << >>
    /\ hTodo = {}
    /\ simhash = {}
    /\ hpc = "idle"

HashInit ==
    /\ blake \in Digests
    /\ hFeatures \in FeatureMaps
    /\ hSize \in Sizes
    /\ size = hSize
    /\ vectors = << >>
    /\ hTodo = {}
    /\ simhash = {}
    /\ hpc = "enter"

\* lines 69-73
HashEnter ==
    /\ hpc = "enter"
    /\ size' = ClampSize(hSize)
    /\ IF size' < 0
       THEN /\ hpc' = "panic"
            /\ UNCHANGED <<vectors, hTodo>>
       ELSE /\ hpc' = "range"
            /\ vectors' = [i \in 0 .. (size' - 1) |-> 0]
            /\ hTodo' = DOMAIN hFeatures
    /\ UNCHANGED <<blake, hFeatures, hSize, simhash>>
    /\ UNCHANGED <<codecVars, extractVars, handlerVars, workerVars>>

\* lines 76-89, one iteration
HashVisit ==
    /\ hpc = "range"
    /\ \E text \in hTodo :
          /\ vectors' = AddFeature(vectors, toBits(blake[text], size),
                                   hFeatures[text], size)
          /\ hTodo' = hTodo \ {text}
    /\ UNCHANGED <<blake, hFeatures, hSize, size, simhash, hpc>>
    /\ UNCHANGED <<codecVars, extractVars, handlerVars, workerVars>>

\* lines 91-99
HashBuild ==
    /\ hpc = "range"
    /\ hTodo = {}
    /\ simhash' = BuildSimHash(vectors, size)
    /\ hpc' = "done"
    /\ UNCHANGED <<blake, hFeatures, hSize, size, vectors, hTodo>>
    /\ UNCHANGED <<codecVars, extractVars, handlerVars, workerVars>>

----------------------------------------------------------------------------
(* One EncodeSimHash / DecodeSimHash round trip.                           *)

RECURSIVE BitSetsUpTo(_)
BitSetsUpTo(k) ==
    IF k = 0 THEN {{}}
    ELSE LET p == BitSetsUpTo(k - 1)
         IN  p \cup {s \cup {b} : s \in p, b \in BitPositions}

Fingerprints ==
    LET few == BitSetsUpTo(MaxSetBits)
    IN  few \cup {BitPositions \ s : s \in few}

CodecIdle ==
    /\ cIn = {}
    /\ cShort = EncodedLen
    /\ encoded = << >>
    /\ decoded = [simhash |-> {}, err |-> FALSE]
    /\ cpc = "idle"

CodecInit ==
    /\ cIn \in Fingerprints
    /\ cShort = EncodedLen
    /\ encoded = << >>
    /\ decoded = [simhash |-> {}, err |-> FALSE]
    /\ cpc = "start"

\* EncodeSimHash(cIn)
CodecEncode ==
    /\ cpc = "start"
    /\ encoded' = EncodeSimHash(cIn)
    /\ cpc' = "encoded"
    /\ UNCHANGED <<cIn, cShort, decoded>>
    /\ UNCHANGED <<hashVars, extractVars, handlerVars, workerVars>>

\* a stored value of fewer than 8 bytes: the first n bytes of the fingerprint
CodecEncodeShort ==
    /\ cpc = "start"
    /\ \E n \in 0 .. (EncodedLen - 1) :
          /\ cShort' = n
          /\ encoded' = Base64Encode(SubSeq(SimHashBytes(cIn), 1, n))
    /\ cpc' = "encoded"
    /\ UNCHANGED <<cIn, decoded>>
    /\ UNCHANGED <<hashVars, extractVars, handlerVars, workerVars>>

\* a stored value that is no base64: the encoding with its last character lost
CodecCorrupt ==
    /\ cpc = "start"
    /\ encoded' = SubSeq(EncodeSimHash(cIn), 1, Len(EncodeSimHash(cIn)) - 1)
    /\ cShort' = -1
    /\ cpc' = "encoded"
    /\ UNCHANGED <<cIn, decoded>>
    /\ UNCHANGED <<hashVars, extractVars, handlerVars, workerVars>>

\* DecodeSimHash(encoded)
CodecDecode ==
    /\ cpc = "encoded"
    /\ decoded' = DecodeSimHash(encoded)
    /\ cpc' = "decoded"
    /\ UNCHANGED <<cIn, cShort, encoded>>
    /\ UNCHANGED <<hashVars, extractVars, handlerVars, workerVars>>

----------------------------------------------------------------------------
(* One call of ExtractHTMLFeatures.                                        *)

ExtractIdle ==
    /\ eDoc = DocumentNode(<< >>)
    /\ eFeatures = << >>
    /\ epc = "idle"

ExtractInit ==
    /\ eDoc \in {Page(head, items) : head \in Heads, items \in SeqsUpTo(Items, MaxKids)}
    /\ eFeatures = << >>
    /\ epc = "start"

\* ExtractHTMLFeatures(htmlContent), html.Parse having returned eDoc
Extract ==
    /\ epc = "start"
    /\ eFeatures' = ExtractHTMLFeatures(eDoc)
    /\ epc' = "done"
    /\ UNCHANGED eDoc
    /\ UNCHANGED <<hashVars, codecVars, handlerVars, workerVars>>

----------------------------------------------------------------------------
(* pkg/worker: the Worker registered in main, and its collaborators.       *)

\* asynq.Config.Concurrency = config.AppConfig.Threads: the worker slots that
\* run HandleCalculateSimHash of the one Worker at the same time
Threads == 2
Slots == 1 .. Threads

maxDownloadSize == 1000000
StatusOK == 200

\* the value of an absent key or of no string at all (no stored value has this form)
Nil == << "<nil>" >>
NoContent == [doc |-> "", len |-> 0]

TheURL == "example.org"

\* t.Payload(): what the handler enqueued, or bytes that are no JSON
Payloads == { [valid |-> TRUE, URL |-> TheURL, Year |-> 2020],
              [valid |-> FALSE, URL |-> "", Year |-> 0] }

Timestamps == << "20200105000000", "20200610000000", "20201224000000" >>
\* the timestamps the index answers with when jobs run at the same time
TimestampsConc == 2
AllTimestamps == {Timestamps[i] : i \in 1 .. Len(Timestamps)}

\* line 89: fmt.Sprintf("simhash:%s:%s", url, timestamp)
SimhashKey(url, timestamp) == << "simhash", url, timestamp >>

Keys == {SimhashKey(TheURL, t) : t \in AllTimestamps}

\* What the capture index answers: a transport failure, a body that is no
\* JSON table, or a table: nothing at all, or a header row and up to n rows
\* over the first k timestamps, a row being [urlkey, timestamp] or too short.
IndexHeader == << "urlkey", "timestamp" >>
IndexRows(k) ==
    {<< "org,example)/", Timestamps[i] >> : i \in 1 .. k} \cup {<< "org,example)/" >>}
IndexResponses(n, k) ==
    {[fault |-> f, results |-> << >>] : f \in {"transport", "decode", "none"}}
    \cup {[fault |-> "none", results |-> << IndexHeader >> \o r] :
             r \in SeqsUpTo(IndexRows(k), n)}

\* lines 169-174: the second column of every row that has one
RECURSIVE RowTimestamps(_, _)
RowTimestamps(rows, i) ==
    IF i > Len(rows) THEN << >>
    ELSE (IF Len(rows[i]) > 1 THEN << rows[i][2] >> ELSE << >>)
         \o RowTimestamps(rows, i + 1)

\* getSnapshots: [timestamps, err]
getSnapshots(resp) ==
    IF resp.fault = "transport" THEN [timestamps |-> << >>, err |-> "transport error"]
    ELSE IF resp.fault = "decode" THEN [timestamps |-> << >>, err |-> "decode error"]
    ELSE IF Len(resp.results) < 2
         THEN [timestamps |-> << >>, err |-> "no snapshots found"]
         ELSE [timestamps |-> RowTimestamps(resp.results, 2), err |-> "nil"]

\* Content-Type headers of the model
ContentTypes ==
    { << "T","E","X","T","/","H","T","M","L",";"," ","c","h","a","r","s","e","t",
         "=","u","t","f","-","8" >>,
      << "a","p","p","l","i","c","a","t","i","o","n","/","x","h","t","m","l","+",
         "x","m","l" >>,
      << "i","m","a","g","e","/","p","n","g" >>,
      << >> }

\* lines 191-194
isHTMLContent(contentType) ==
    \/ Contains(ToLower(contentType), << "t","e","x","t","/","h","t","m","l" >>)
    \/ Contains(ToLower(contentType),
                << "a","p","p","l","i","c","a","t","i","o","n","/","x","h","t","m","l" >>)

\* The bodies the replay endpoint serves: a document and its length in bytes.
Bodies == { [doc |-> "hello", len |-> 2048],
            [doc |-> "other", len |-> maxDownloadSize + 1],
            [doc |-> "blank", len |-> maxDownloadSize] }

\* What the replay endpoint answers: the request cannot be built or sent, or
\* a response whose body can be read to its end or breaks off.
FetchResponses ==
    {[fault |-> f, status |-> 0, contentType |-> << >>, body |-> NoContent] :
        f \in {"request", "transport"}}
    \cup {[fault |-> f, status |-> st, contentType |-> ct, body |-> b] :
             f \in {"none", "read"}, st \in {StatusOK, 404},
             ct \in ContentTypes, b \in Bodies}

\* line 146: ioutil.ReadAll(resp.Body) reads the body to its end
ReadAll(body) == [doc |-> body.doc, len |-> body.len]

\* downloadSnapshot without the Content-Type test of lines 141-144
downloadSnapshotAnyType(resp) ==
    IF resp.fault = "request" THEN [content |-> NoContent, err |-> "request error"]
    ELSE IF resp.fault = "transport"
         THEN [content |-> NoContent, err |-> "transport error"]
    ELSE IF resp.status # StatusOK
         THEN [content |-> NoContent, err |-> "unexpected status"]
    ELSE IF resp.fault = "read" THEN [content |-> NoContent, err |-> "read error"]
    ELSE [content |-> ReadAll(resp.body), err |-> "nil"]

\* downloadSnapshot: [content, err]
downloadSnapshot(resp) ==
    IF resp.fault = "request" THEN [content |-> NoContent, err |-> "request error"]
    ELSE IF resp.fault = "transport"
         THEN [content |-> NoContent, err |-> "transport error"]
    ELSE IF resp.status # StatusOK
         THEN [content |-> NoContent, err |-> "unexpected status"]
    ELSE IF ~isHTMLContent(resp.contentType)
         THEN [content |-> NoContent, err |-> "not HTML content"]
    ELSE IF resp.fault = "read" THEN [content |-> NoContent, err |-> "read error"]
    ELSE [content |-> ReadAll(resp.body), err |-> "nil"]

\* config.AppConfig.Simhash.Size of the runs of the worker
SimhashSize == 64

\* lines 105-111: the value processSnapshot stores for a document:
\* [value, err, panic]
FingerprintOf(doc) ==
    LET features == ExtractHTMLFeatures(HTMLParse(doc))
        hash == SimHashOf(DefaultBlake, features, SimhashSize)
    IN  IF DOMAIN features = {}
        THEN [value |-> Nil, err |-> "no features extracted", panic |-> FALSE]
        ELSE IF hash.panic THEN [value |-> Nil, err |-> "nil", panic |-> TRUE]
        ELSE [value |-> EncodeSimHash(hash.simhash), err |-> "nil", panic |-> FALSE]

FingerprintTable == [d \in DocNames |-> FingerprintOf(d)]
Fingerprint(c) == FingerprintTable[c.doc]

\* everything downloadSnapshot can return
FetchOutcomes == {downloadSnapshot(resp) : resp \in FetchResponses}

\* everything getSnapshots can return for the index responses of a run
IndexOutcomes(n, k) == {getSnapshots(resp) : resp \in IndexResponses(n, k)}
IndexOutcomesConc == IndexOutcomes(MaxRowsConc, TimestampsConc)
IndexOutcomesSeq == IndexOutcomes(MaxRowsSeq, Len(Timestamps))

\* the test with ">" for ">="
BudgetReachedStrict(count) == count > AppConfig.MaxErrors

\* line 76: the test that ends the job
BudgetReached(count) == count >= AppConfig.MaxErrors

\* ctx.Err() of a job's context that is done (asynq: shutdown, cancel
\* request); a deadline that passes differs in the text of ctx.Err() only
CtxErrors == {"context canceled"}

\* lines 70-72: the select on ctx.Done()
CtxDone(c) == c # "active"

\* lines 90 and 114: what a failing store call returns: an error of the store
\* or of the connection, or, given a context that is done, the context's error
StoreErrors(c) == {"error"} \cup (IF CtxDone(c) THEN {c} ELSE {})

\* the timestamp the range loop of a job is at
Snap(w) == snapshots[w][idx[w] + 1]

OtherJobVars == <<hashVars, codecVars, extractVars, handlerVars, AppConfig>>

\* HandleCalculateSimHash without the reset of lines 53-55
StartNoReset(w) ==
    /\ pc[w] \in {"idle", "done"}
    /\ jobs < MaxJobs
    /\ jobs' = jobs + 1
    /\ \E p \in Payloads :
          IF ~p.valid
          THEN /\ pc' = [pc EXCEPT ![w] = "done"]
               /\ outcome' = [outcome EXCEPT ![w] = "json.Unmarshal failed"]
               /\ UNCHANGED downloadErrs
          ELSE /\ pc' = [pc EXCEPT ![w] = "enum"]
               /\ outcome' = [outcome EXCEPT ![w] = "running"]
               /\ UNCHANGED downloadErrs
    /\ ctx' = [ctx EXCEPT ![w] = "active"]
    /\ snapshots' = [snapshots EXCEPT ![w] = << >>]
    /\ idx' = [idx EXCEPT ![w] = 0]
    /\ content' = [content EXCEPT ![w] = NoContent]
    /\ err' = [err EXCEPT ![w] = "nil"]
    /\ before' = [before EXCEPT ![w] =
                      {t \in AllTimestamps : redis[SimhashKey(TheURL, t)] # Nil}]
    /\ nFailed' = [nFailed EXCEPT ![w] = 0]
    /\ failedAt' = [failedAt EXCEPT ![w] = {}]
    /\ attempted' = [attempted EXCEPT ![w] = << >>]
    /\ skipped' = [skipped EXCEPT ![w] = {}]
    /\ wrote' = [wrote EXCEPT ![w] = << >>]
    /\ UNCHANGED <<redis, writes, OtherJobVars>>

\* HandleCalculateSimHash, lines 46-55: decode the payload, reset the counter
Start(w) ==
    /\ pc[w] \in {"idle", "done"}
    /\ jobs < MaxJobs
    /\ jobs' = jobs + 1
    /\ \E p \in Payloads :
          IF ~p.valid
          THEN /\ pc' = [pc EXCEPT ![w] = "done"]
               /\ outcome' = [outcome EXCEPT ![w] = "json.Unmarshal failed"]
               /\ UNCHANGED downloadErrs
          ELSE /\ pc' = [pc EXCEPT ![w] = "enum"]
               /\ outcome' = [outcome EXCEPT ![w] = "running"]
               /\ downloadErrs' = 0
    /\ ctx' = [ctx EXCEPT ![w] = "active"]
    /\ snapshots' = [snapshots EXCEPT ![w] = << >>]
    /\ idx' = [idx EXCEPT ![w] = 0]
    /\ content' = [content EXCEPT ![w] = NoContent]
    /\ err' = [err EXCEPT ![w] = "nil"]
    /\ before' = [before EXCEPT ![w] =
                      {t \in AllTimestamps : redis[SimhashKey(TheURL, t)] # Nil}]
    /\ nFailed' = [nFailed EXCEPT ![w] = 0]
    /\ failedAt' = [failedAt EXCEPT ![w] = {}]
    /\ attempted' = [attempted EXCEPT ![w] = << >>]
    /\ skipped' = [skipped EXCEPT ![w] = {}]
    /\ wrote' = [wrote EXCEPT ![w] = << >>]
    /\ UNCHANGED <<redis, writes, OtherJobVars>>

\* the job's context is cancelled, at any point of the job
Cancel(w) ==
    /\ pc[w] \notin {"idle", "done"}
    /\ ctx[w] = "active"
    /\ \E e \in CtxErrors :
          ctx' = [ctx EXCEPT ![w] = e]
    /\ UNCHANGED <<sharedVars, pc, snapshots, idx, content, outcome, err,
                   bookVars, hashVars, codecVars,
                   extractVars, handlerVars>>

\* processURLForYear, lines 63-66, with the answer of the capture index
Enumerate(w, answers) ==
    /\ pc[w] = "enum"
    /\ \E r \in answers :
          IF r.err # "nil"
          THEN /\ pc' = [pc EXCEPT ![w] = "done"]
               /\ outcome' = [outcome EXCEPT ![w] = r.err]
               /\ UNCHANGED snapshots
          ELSE /\ pc' = [pc EXCEPT ![w] = "loop"]
               /\ snapshots' = [snapshots EXCEPT ![w] = r.timestamps]
               /\ UNCHANGED outcome
    /\ UNCHANGED <<sharedVars, ctx, idx, content, err, bookVars, hashVars, codecVars,
                   extractVars, handlerVars>>

\* the loop without the select on ctx.Done()
LoopHeadNoSelect(w) ==
    /\ pc[w] = "loop"
    /\ IF idx[w] >= Len(snapshots[w])
       THEN /\ pc' = [pc EXCEPT ![w] = "done"]
            /\ outcome' = [outcome EXCEPT ![w] = "nil"]
            /\ UNCHANGED attempted
       ELSE /\ pc' = [pc EXCEPT ![w] = "exists"]
            /\ attempted' = [attempted EXCEPT ![w] = Append(attempted[w], Snap(w))]
            /\ UNCHANGED outcome
    /\ UNCHANGED <<sharedVars, ctx, snapshots, idx, content, err,
                   jobs, before, nFailed, failedAt, skipped, wrote, writes,
                   hashVars, codecVars,
                   extractVars, handlerVars>>

\* the loop ending one element early
LoopHeadStopsEarly(w) ==
    /\ pc[w] = "loop"
    /\ IF idx[w] >= Len(snapshots[w]) - 1
       THEN /\ pc' = [pc EXCEPT ![w] = "done"]
            /\ outcome' = [outcome EXCEPT ![w] = "nil"]
            /\ UNCHANGED attempted
       ELSE IF CtxDone(ctx[w])
       THEN /\ pc' = [pc EXCEPT ![w] = "done"]
            /\ outcome' = [outcome EXCEPT ![w] = ctx[w]]
            /\ UNCHANGED attempted
       ELSE /\ pc' = [pc EXCEPT ![w] = "exists"]
            /\ attempted' = [attempted EXCEPT ![w] = Append(attempted[w], Snap(w))]
            /\ UNCHANGED outcome
    /\ UNCHANGED <<sharedVars, ctx, snapshots, idx, content, err,
                   jobs, before, nFailed, failedAt, skipped, wrote, writes,
                   hashVars, codecVars,
                   extractVars, handlerVars>>

\* lines 69-74 and 84: the range loop ends, or the select sees the context
\* done, or processSnapshot is called for the next timestamp
LoopHead(w) ==
    /\ pc[w] = "loop"
    /\ IF idx[w] >= Len(snapshots[w])
       THEN /\ pc' = [pc EXCEPT ![w] = "done"]
            /\ outcome' = [outcome EXCEPT ![w] = "nil"]
            /\ UNCHANGED attempted
       ELSE IF CtxDone(ctx[w])
       THEN /\ pc' = [pc EXCEPT ![w] = "done"]
            /\ outcome' = [outcome EXCEPT ![w] = ctx[w]]
            /\ UNCHANGED attempted
       ELSE /\ pc' = [pc EXCEPT ![w] = "exists"]
            /\ attempted' = [attempted EXCEPT ![w] = Append(attempted[w], Snap(w))]
            /\ UNCHANGED outcome
    /\ UNCHANGED <<sharedVars, ctx, snapshots, idx, content, err,
                   jobs, before, nFailed, failedAt, skipped, wrote, writes,
                   hashVars, codecVars,
                   extractVars, handlerVars>>

\* the existence check without the early return of lines 94-96
ExistsNoSkip(w) ==
    /\ pc[w] = "exists"
    /\ \/ /\ pc' = [pc EXCEPT ![w] = "inc"]
          /\ \E e \in StoreErrors(ctx[w]) : err' = [err EXCEPT ![w] = e]
       \/ /\ pc' = [pc EXCEPT ![w] = "download"]
          /\ UNCHANGED err
    /\ UNCHANGED <<sharedVars, ctx, snapshots, idx, content, outcome,
                   bookVars, hashVars, codecVars,
                   extractVars, handlerVars>>

\* the existence check with a skip that leaves the loop on the same capture
ExistsSkipStays(w) ==
    /\ pc[w] = "exists"
    /\ \/ /\ pc' = [pc EXCEPT ![w] = "inc"]
          /\ \E e \in StoreErrors(ctx[w]) : err' = [err EXCEPT ![w] = e]
          /\ UNCHANGED <<skipped, attempted>>
       \/ /\ redis[SimhashKey(TheURL, Snap(w))] # Nil
          /\ pc' = [pc EXCEPT ![w] = "loop"]
          /\ skipped' = [skipped EXCEPT ![w] = skipped[w] \cup {Snap(w)}]
          /\ attempted' = [attempted EXCEPT ![w] = SubSeq(attempted[w], 1, idx[w])]
          /\ UNCHANGED err
       \/ /\ redis[SimhashKey(TheURL, Snap(w))] = Nil
          /\ pc' = [pc EXCEPT ![w] = "download"]
          /\ UNCHANGED <<skipped, attempted, err>>
    /\ UNCHANGED <<sharedVars, ctx, snapshots, idx, content, outcome,
                   jobs, before, nFailed, failedAt, wrote, writes,
                   hashVars, codecVars,
                   extractVars, handlerVars>>

\* processSnapshot, lines 89-96: the existence check; the store call may fail.
\* An error processSnapshot returns is only tested against nil (line 74), so
\* the position "inc" stands for every non-nil error.
Exists(w) ==
    /\ pc[w] = "exists"
    /\ \/ /\ pc' = [pc EXCEPT ![w] = "inc"]
          /\ \E e \in StoreErrors(ctx[w]) : err' = [err EXCEPT ![w] = e]
          /\ UNCHANGED <<idx, skipped>>
       \/ /\ redis[SimhashKey(TheURL, Snap(w))] # Nil
          /\ pc' = [pc EXCEPT ![w] = "loop"]
          /\ idx' = [idx EXCEPT ![w] = idx[w] + 1]
          /\ skipped' = [skipped EXCEPT ![w] = skipped[w] \cup {Snap(w)}]
          /\ UNCHANGED err
       \/ /\ redis[SimhashKey(TheURL, Snap(w))] = Nil
          /\ pc' = [pc EXCEPT ![w] = "download"]
          /\ UNCHANGED <<idx, skipped, err>>
    /\ UNCHANGED <<sharedVars, ctx, snapshots, content, outcome,
                   jobs, before, nFailed, failedAt, attempted, wrote, writes,
                   hashVars, codecVars,
                   extractVars, handlerVars>>

\* processSnapshot, lines 99-102: downloadSnapshot, which is not given ctx
Download(w) ==
    /\ pc[w] = "download"
    /\ \E r \in FetchOutcomes :
          IF r.err # "nil"
          THEN /\ pc' = [pc EXCEPT ![w] = "inc"]
               /\ err' = [err EXCEPT ![w] = "error"]
               /\ UNCHANGED content
          ELSE /\ content' = [content EXCEPT ![w] = r.content]
               /\ pc' = [pc EXCEPT ![w] = "store"]
               /\ UNCHANGED err
    /\ UNCHANGED <<sharedVars, ctx, snapshots, idx, outcome, bookVars,
                   hashVars, codecVars,
                   extractVars, handlerVars>>

\* processSnapshot, lines 105-115: features, fingerprint, Set; the store call
\* may fail, and then stores nothing
Store(w) ==
    /\ pc[w] = "store"
    /\ LET f == Fingerprint(content[w])
           key == SimhashKey(TheURL, Snap(w))
       IN  IF f.panic
           THEN /\ pc' = [pc EXCEPT ![w] = "done"]
                /\ outcome' = [outcome EXCEPT ![w] = "panic"]
                /\ UNCHANGED <<redis, idx, err, wrote, writes>>
           ELSE IF f.err # "nil"
           THEN /\ pc' = [pc EXCEPT ![w] = "inc"]
                /\ err' = [err EXCEPT ![w] = "error"]
                /\ UNCHANGED <<redis, idx, outcome, wrote, writes>>
           ELSE \/ /\ pc' = [pc EXCEPT ![w] = "inc"]
                   /\ \E e \in StoreErrors(ctx[w]) : err' = [err EXCEPT ![w] = e]
                   /\ UNCHANGED <<redis, idx, outcome, wrote, writes>>
                \/ /\ redis' = [redis EXCEPT ![key] = f.value]
                   /\ writes' = [writes EXCEPT ![key] = writes[key] + 1]
                   /\ wrote' = [wrote EXCEPT ![w] =
                                   [t \in DOMAIN wrote[w] \cup {Snap(w)} |->
                                       IF t = Snap(w) THEN f.value ELSE wrote[w][t]]]
                   /\ idx' = [idx EXCEPT ![w] = idx[w] + 1]
                   /\ pc' = [pc EXCEPT ![w] = "loop"]
                   /\ UNCHANGED <<outcome, err>>
    /\ content' = [content EXCEPT ![w] = NoContent]
    /\ UNCHANGED <<AppConfig, downloadErrs, ctx, snapshots,
                   jobs, before, nFailed, failedAt, attempted, skipped,
                   hashVars, codecVars,
                   extractVars, handlerVars>>

\* line 75 and lines 179-183: incrementErrors, under the mutex
IncrementErrors(w) ==
    /\ pc[w] = "inc"
    /\ downloadErrs' = downloadErrs + 1
    /\ nFailed' = [nFailed EXCEPT ![w] = nFailed[w] + 1]
    /\ failedAt' = [failedAt EXCEPT ![w] = failedAt[w] \cup {Snap(w)}]
    /\ pc' = [pc EXCEPT ![w] = "get"]
    /\ UNCHANGED <<AppConfig, redis, ctx, snapshots, idx, content, outcome, err,
                   jobs, before, attempted, skipped, wrote, writes,
                   hashVars, codecVars,
                   extractVars, handlerVars>>

\* the test with the failed capture tried again instead of `continue`
CheckErrorsRetry(w) ==
    /\ pc[w] = "get"
    /\ IF BudgetReached(downloadErrs)
       THEN /\ pc' = [pc EXCEPT ![w] = "done"]
            /\ outcome' = [outcome EXCEPT ![w] = "max errors reached"]
            /\ UNCHANGED err
       ELSE /\ pc' = [pc EXCEPT ![w] = "loop"]
            /\ err' = [err EXCEPT ![w] = "nil"]
            /\ UNCHANGED outcome
    /\ UNCHANGED <<sharedVars, ctx, snapshots, idx, content, bookVars, hashVars, codecVars,
                   extractVars, handlerVars>>

\* lines 76-79 and 185-189: getErrorCount, under the mutex, and the test
CheckErrors(w) ==
    /\ pc[w] = "get"
    /\ IF BudgetReached(downloadErrs)
       THEN /\ pc' = [pc EXCEPT ![w] = "done"]
            /\ outcome' = [outcome EXCEPT ![w] = "max errors reached"]
            /\ UNCHANGED <<idx, err>>
       ELSE /\ pc' = [pc EXCEPT ![w] = "loop"]
            /\ idx' = [idx EXCEPT ![w] = idx[w] + 1]
            /\ err' = [err EXCEPT ![w] = "nil"]
            /\ UNCHANGED outcome
    /\ UNCHANGED <<sharedVars, ctx, snapshots, content, bookVars, hashVars, codecVars,
                   extractVars, handlerVars>>

WorkerIdle ==
    /\ downloadErrs = 0
    /\ redis = [k \in Keys |-> Nil]
    /\ pc = [w \in Slots |-> "idle"]
    /\ ctx = [w \in Slots |-> "active"]
    /\ snapshots = [w \in Slots |-> << >>]
    /\ idx = [w \in Slots |-> 0]
    /\ content = [w \in Slots |-> NoContent]
    /\ err = [w \in Slots |-> "nil"]
    /\ outcome = [w \in Slots |-> "idle"]
    /\ jobs = 0
    /\ before = [w \in Slots |-> {}]
    /\ nFailed = [w \in Slots |-> 0]
    /\ failedAt = [w \in Slots |-> {}]
    /\ attempted = [w \in Slots |-> << >>]
    /\ skipped = [w \in Slots |-> {}]
    /\ wrote = [w \in Slots |-> << >>]
    /\ writes = [k \in Keys |-> 0]

\* main, lines 26-51: the configuration is loaded, one Worker is made
WorkerInit ==
    /\ AppConfig \in {[MaxErrors |-> m] : m \in 0 .. MaxErrorsTop}
    /\ WorkerIdle

WorkerOff ==
    /\ AppConfig = [MaxErrors |-> 0]
    /\ WorkerIdle

----------------------------------------------------------------------------
(* internal/handler: Handler.CalculateSimHash, one invocation per request, *)
(* all requests for the same url and year.                                 *)

Requests == 1 .. MaxRequests
NoResponse == [code |-> 0, status |-> "", job_id |-> Nil]

HandlerIdle ==
    /\ taskKey = Nil
    /\ queue = << >>
    /\ rpc = [r \in Requests |-> "idle"]
    /\ taskID = [r \in Requests |-> Nil]
    /\ response = [r \in Requests |-> NoResponse]

\* the query of a request: url and year as the client sent them
Queries == { [url |-> TheURL, year |-> "2020"],
             [url |-> "", year |-> "2020"],
             [url |-> TheURL, year |-> "next"] }

\* strconv.Atoi(yearStr) succeeds
IsYear(yearStr) == yearStr \in {"2020"}

\* line 82: uuid.New().String(), a fresh id for every call
UUIDs == << <<"7","c","9","e">>, <<"f","4","7","a">>, <<"1","6","f","d">>,
           <<"9","b","2","d">>, <<"e","4","e","a">> >>
NewUUID(r) == UUIDs[r]

StatusBadRequest == 400
StatusInternalServerError == 500

Answer(code, status, id) == [code |-> code, status |-> status, job_id |-> id]

OtherHandlerVars == <<hashVars, codecVars, extractVars, workerVars>>

\* lines 32-50: the request arrives; url and year are validated
ReqStart(r) ==
    /\ rpc[r] = "idle"
    /\ \E q \in Queries :
          IF q.url = "" \/ ~IsYear(q.year)
          THEN /\ response' = [response EXCEPT ![r] = Answer(StatusBadRequest, "error", Nil)]
               /\ rpc' = [rpc EXCEPT ![r] = "done"]
          ELSE /\ rpc' = [rpc EXCEPT ![r] = "exists"]
               /\ UNCHANGED response
    /\ UNCHANGED <<taskKey, queue, taskID, OtherHandlerVars>>

\* lines 53-63: redisClient.Exists on the task key; the call may fail
ReqExists(r) ==
    /\ rpc[r] = "exists"
    /\ \/ /\ response' = [response EXCEPT ![r] =
                               Answer(StatusInternalServerError, "error", Nil)]
          /\ rpc' = [rpc EXCEPT ![r] = "done"]
       \/ /\ taskKey # Nil
          /\ rpc' = [rpc EXCEPT ![r] = "get"]
          /\ UNCHANGED response
       \/ /\ taskKey = Nil
          /\ rpc' = [rpc EXCEPT ![r] = "new"]
          /\ UNCHANGED response
    /\ UNCHANGED <<taskKey, queue, taskID, OtherHandlerVars>>

\* lines 65-78: redisClient.Get of the task id, answered as PENDING
ReqGet(r) ==
    /\ rpc[r] = "get"
    /\ \/ response' = [response EXCEPT ![r] =
                            Answer(StatusInternalServerError, "error", Nil)]
       \/ /\ taskKey # Nil
          /\ response' = [response EXCEPT ![r] = Answer(StatusOK, "PENDING", taskKey)]
    /\ rpc' = [rpc EXCEPT ![r] = "done"]
    /\ UNCHANGED <<taskKey, queue, taskID, OtherHandlerVars>>

\* lines 82-93: a new task id, and taskClient.Enqueue of the task under it
ReqEnqueue(r) ==
    /\ rpc[r] = "new"
    /\ taskID' = [taskID EXCEPT ![r] = NewUUID(r)]
    /\ \/ /\ response' = [response EXCEPT ![r] =
                               Answer(StatusInternalServerError, "error", Nil)]
          /\ rpc' = [rpc EXCEPT ![r] = "done"]
          /\ UNCHANGED queue
       \/ /\ queue' = Append(queue, NewUUID(r))
          /\ rpc' = [rpc EXCEPT ![r] = "set"]
          /\ UNCHANGED response
    /\ UNCHANGED <<taskKey, OtherHandlerVars>>

\* lines 96-108: redisClient.Set of the task key (24 hours), answered as started
ReqSet(r) ==
    /\ rpc[r] = "set"
    /\ \/ /\ response' = [response EXCEPT ![r] =
                               Answer(StatusInternalServerError, "error", Nil)]
          /\ UNCHANGED taskKey
       \/ /\ taskKey' = taskID[r]
          /\ response' = [response EXCEPT ![r] = Answer(StatusOK, "started", taskID[r])]
    /\ rpc' = [rpc EXCEPT ![r] = "done"]
    /\ UNCHANGED <<queue, taskID, OtherHandlerVars>>

----------------------------------------------------------------------------
(* Specifications. *)

InitHash == HashInit /\ CodecIdle /\ ExtractIdle /\ HandlerIdle /\ WorkerOff
NextHash == HashEnter \/ HashVisit \/ HashBuild
SpecHash == InitHash /\ [][NextHash]_vars

InitCodec == HashIdle /\ CodecInit /\ ExtractIdle /\ HandlerIdle /\ WorkerOff
NextCodec == CodecEncode \/ CodecEncodeShort \/ CodecCorrupt \/ CodecDecode
SpecCodec == InitCodec /\ [][NextCodec]_vars

InitExtract == HashIdle /\ CodecIdle /\ ExtractInit /\ HandlerIdle /\ WorkerOff
NextExtract == Extract
SpecExtract == InitExtract /\ [][NextExtract]_vars

\* The HTTP server: the requests run at the same time (one goroutine each).
InitHandler == HashIdle /\ CodecIdle /\ ExtractIdle /\ HandlerIdle /\ WorkerOff
NextHandler ==
    \E r \in Requests :
        \/ ReqStart(r)
        \/ ReqExists(r)
        \/ ReqGet(r)
        \/ ReqEnqueue(r)
        \/ ReqSet(r)
SpecHandler == InitHandler /\ [][NextHandler]_vars

\* The process as main starts it: Threads jobs at a time on the one Worker.
Init == HashIdle /\ CodecIdle /\ ExtractIdle /\ HandlerIdle /\ WorkerInit
Next ==
    \E w \in Slots :
        \/ Start(w)
        \/ Cancel(w)
        \/ Enumerate(w, IndexOutcomesConc)
        \/ LoopHead(w)
        \/ Exists(w)
        \/ Download(w)
        \/ Store(w)
        \/ IncrementErrors(w)
        \/ CheckErrors(w)
Spec == Init /\ [][Next]_vars

\* The process under fair scheduling: a job that can take its next step takes
\* it (every goroutine is scheduled; the index query, the fetch and the store
\* calls return, by the timeouts of their clients). Whether a job starts or
\* its context is cancelled is left open.
IndexOutcomesFair == IndexOutcomes(MaxRowsFair, TimestampsFair)
WorkerFair ==
    /\ AppConfig \in {[MaxErrors |-> m] : m \in 1 .. MaxErrorsFair}
    /\ WorkerIdle
InitFair == HashIdle /\ CodecIdle /\ ExtractIdle /\ HandlerIdle /\ WorkerFair
JobStep(w) ==
    \/ Enumerate(w, IndexOutcomesFair)
    \/ LoopHead(w)
    \/ Exists(w)
    \/ Download(w)
    \/ Store(w)
    \/ IncrementErrors(w)
    \/ CheckErrors(w)
NextFair ==
    \E w \in Slots :
        \/ Start(w)
        \/ Cancel(w)
        \/ JobStep(w)
Fairness == \A w \in Slots : WF_vars(JobStep(w))
SpecFair == InitFair /\ [][NextFair]_vars /\ Fairness

\* The same process with one worker slot: jobs run one after another.
SeqSlots == {1}
NextSeq ==
    \E w \in SeqSlots :
        \/ Start(w)
        \/ Cancel(w)
        \/ Enumerate(w, IndexOutcomesSeq)
        \/ LoopHead(w)
        \/ Exists(w)
        \/ Download(w)
        \/ Store(w)
        \/ IncrementErrors(w)
        \/ CheckErrors(w)
SpecSeq == Init /\ [][NextSeq]_vars

----------------------------------------------------------------------------
(* The claims. *)

MaxErrors == AppConfig.MaxErrors
EnumErrors == {"transport error", "decode error", "no snapshots found"}
Stored(t) == redis[SimhashKey(TheURL, t)]
Listed(w) == {snapshots[w][i] : i \in 1 .. Len(snapshots[w])}

\* C1: with jobs running at the same time on the one Worker, the count a
\* job compares against MaxErrors is the number of its own failed captures:
\* no failure and no start of another job changes it.
ErrorBudgetIsolation ==
    \A w \in Slots : pc[w] = "get" => downloadErrs = nFailed[w]

\* C2: a job that runs alone goes on to another capture only while its
\* failed captures are fewer than MaxErrors; the failure that brings their
\* number to MaxErrors ends the job with 'max errors reached' at that capture,
\* and what the job stored before is still in the store, unchanged.
BudgetEnforcement ==
    \A w \in Slots :
        /\ (pc[w] \in {"loop", "exists", "download", "store", "inc"} /\ nFailed[w] >= 1)
              => nFailed[w] < MaxErrors
        /\ (pc[w] = "done" /\ nFailed[w] >= 1 /\ nFailed[w] >= MaxErrors)
              => /\ outcome[w] = "max errors reached"
                 /\ Len(attempted[w]) = idx[w] + 1
                 /\ attempted[w] = SubSeq(snapshots[w], 1, idx[w] + 1)
        /\ outcome[w] = "max errors reached"
              => pc[w] = "done" /\ nFailed[w] >= 1 /\ nFailed[w] >= MaxErrors
        /\ \A t \in DOMAIN wrote[w] : Stored(t) = wrote[w][t]

\* C2 witness: MaxErrors = 1, three captures, the first stored, the second
\* failed, the third never attempted.
BudgetEnforcementWitness ==
    \E w \in Slots :
        /\ MaxErrors = 1
        /\ outcome[w] = "max errors reached"
        /\ Len(snapshots[w]) = 3
        /\ Len(attempted[w]) = 2
        /\ DOMAIN wrote[w] = {snapshots[w][1]}
        /\ Stored(snapshots[w][1]) # Nil
        /\ snapshots[w][3] \notin {snapshots[w][1], snapshots[w][2]}
        /\ Stored(snapshots[w][3]) = Nil

\* C3 as stated (here for lists that name no timestamp twice): a job that
\* runs alone, is not cancelled and whose failed captures stay fewer than
\* MaxErrors attempts every timestamp of the list, returns nil, and leaves a
\* fingerprint for exactly the listed timestamps that were present before or
\* that it stored, and for none that failed.
BelowBudget(w) ==
    /\ pc[w] = "done"
    /\ ctx[w] = "active"
    /\ outcome[w] \notin EnumErrors \cup {"json.Unmarshal failed", "idle"}
    /\ nFailed[w] < MaxErrors
CompletionBelowBudgetOriginal ==
    \A w \in Slots :
        (BelowBudget(w) /\ Cardinality(Listed(w)) = Len(snapshots[w]))
        => /\ outcome[w] = "nil"
           /\ attempted[w] = snapshots[w]
           /\ \A t \in Listed(w) :
                 Stored(t) # Nil <=> t \in before[w] \cup DOMAIN wrote[w]
           /\ \A t \in failedAt[w] : Stored(t) = Nil

\* C3, amended: ... and a failed capture has a fingerprint only if its
\* timestamp was present before the job or was stored by the job at another
\* position of the list.
CompletionBelowBudget ==
    \A w \in Slots :
        BelowBudget(w)
        => /\ outcome[w] = "nil"
           /\ attempted[w] = snapshots[w]
           /\ skipped[w] \subseteq before[w] \cup DOMAIN wrote[w]
           /\ \A t \in Listed(w) :
                 Stored(t) # Nil <=> t \in before[w] \cup DOMAIN wrote[w]
           /\ \A t \in failedAt[w] \ (before[w] \cup DOMAIN wrote[w]) :
                 Stored(t) = Nil

\* C3 witness: MaxErrors = 2, the list [T1, T2, T3], T2 failed, the job
\* returned nil with T1 and T3 stored and T2 absent.
CompletionBelowBudgetWitness ==
    \E w \in Slots :
        /\ MaxErrors = 2
        /\ pc[w] = "done" /\ outcome[w] = "nil" /\ ctx[w] = "active"
        /\ snapshots[w] = Timestamps
        /\ nFailed[w] = 1
        /\ failedAt[w] = {Timestamps[2]}
        /\ before[w] = {}
        /\ DOMAIN wrote[w] = {Timestamps[1], Timestamps[3]}
        /\ Stored(Timestamps[1]) # Nil /\ Stored(Timestamps[3]) # Nil
        /\ Stored(Timestamps[2]) = Nil

CancellationCheck ==
    [][ \A w \in Slots :
          /\ (pc'[w] = "exists" /\ pc[w] # "exists")
                => /\ pc[w] = "loop"
                   /\ ~CtxDone(ctx[w])
          /\ (pc[w] = "loop" /\ pc'[w] # "loop" /\ CtxDone(ctx[w])
                 /\ idx[w] < Len(snapshots[w]))
                => /\ pc'[w] = "done"
                   /\ outcome'[w] = ctx[w]
                   /\ attempted'[w] = attempted[w]
                   /\ redis' = redis
                   /\ writes' = writes
          /\ (pc[w] = "download" /\ pc'[w] # "download")
                => pc'[w] \in {"store", "inc"}
          /\ (pc[w] = "download" /\ CtxDone(ctx[w]))
                => ENABLED (Download(w) /\ pc'[w] = "store")
      ]_vars

\* C5 witness: the context was cancelled during a capture; that capture was
\* stored, the job returned the cancellation error, the next capture was
\* never attempted.
CancellationCheckWitness ==
    \E w \in Slots :
        /\ pc[w] = "done"
        /\ outcome[w] = "context canceled"
        /\ idx[w] = 1
        /\ Len(snapshots[w]) > 1
        /\ Len(attempted[w]) = 1
        /\ DOMAIN wrote[w] = {snapshots[w][1]}

\* C6: when the enumeration fails (no data rows, transport, decoding), the
\* job ends with that error, no capture was attempted or stored, and the
\* error count is 0.
EnumerationFailureTerminal ==
    [][ \A w \in Slots :
          (pc[w] = "enum" /\ pc'[w] = "done")
             => /\ outcome'[w] \in EnumErrors
                /\ attempted'[w] = << >>
                /\ redis' = redis
                /\ downloadErrs' = 0
      ]_vars

\* C7: for every size, CalculateSimHash returns normally with width
\* min(size, 64), the width is at least 1, and no bit at or above the width
\* is set.
WidthClamp ==
    hpc \in {"done", "panic"}
       => /\ hpc = "done"
          /\ size = (IF hSize < MaxSize THEN hSize ELSE MaxSize)
          /\ size >= 1
          /\ \A b \in simhash : b < size

\* C8: DecodeSimHash(EncodeSimHash(f)) = f without error; the encoding is the
\* base64 of exactly 8 bytes, byte i holding bits 8i .. 8i+7 of f; an input
\* of n < 8 bytes decodes to those bytes, zero-extended.
EncodingRoundTrip ==
    /\ (cpc \in {"encoded", "decoded"} /\ cShort = EncodedLen)
          => LET r == Base64Decode(encoded)
             IN  /\ ~r.err
                 /\ Len(r.bytes) = EncodedLen
                 /\ \A i \in 0 .. (EncodedLen - 1) : \A k \in 0 .. (ByteBits - 1) :
                       ((r.bytes[i + 1] \div (2^k)) % 2 = 1) <=> (ByteBits * i + k) \in cIn
    /\ (cpc = "decoded" /\ cShort = EncodedLen)
          => ~decoded.err /\ decoded.simhash = cIn
    /\ (cpc = "decoded" /\ cShort \in 0 .. (EncodedLen - 1))
          => /\ ~decoded.err
             /\ decoded.simhash = {b \in cIn : b < ByteBits * cShort}

\* C8 witness: a round trip of a fingerprint with bit 63 set.
EncodingRoundTripWitness ==
    /\ cpc = "decoded"
    /\ cShort = EncodedLen
    /\ 63 \in cIn
    /\ decoded.simhash = cIn

\* C9: whatever order the range loop visits the tokens in, the call returns
\* the fingerprint of the features and the size.
Determinism ==
    hpc = "done" => simhash = CalculateSimHash(hFeatures, hSize).simhash

\* C9 witness: a call over three tokens that returned a fingerprint with
\* set and unset bits.
DeterminismWitness ==
    /\ hpc = "done"
    /\ Cardinality(DOMAIN hFeatures) = 3
    /\ size = MaxSize
    /\ simhash # {}
    /\ simhash # 0 .. (size - 1)

\* C10: the content downloadSnapshot hands to processSnapshot is at most
\* maxDownloadSize bytes long.
DownloadSizeCap ==
    \A w \in Slots : content[w].len <= maxDownloadSize

\* C11: the features ExtractHTMLFeatures returns are the normalized tokens of
\* the text nodes with no script or style element among their ancestors, each
\* with the number of its occurrences in them; text inside a script or style
\* element adds nothing, its siblings and the rest of the tree are counted.
RECURSIVE VisibleText(_, _)
RECURSIVE VisibleTextOfAll(_, _, _)
VisibleText(n, hidden) ==
    (IF n.Type = "TextNode" /\ ~hidden THEN n.Data \o << " " >> ELSE << >>)
    \o VisibleTextOfAll(n.Children, 1,
                        hidden \/ (n.Type = "ElementNode" /\ n.Data \in {"script", "style"}))
VisibleTextOfAll(kids, i, hidden) ==
    IF i > Len(kids) THEN << >>
    ELSE VisibleText(kids[i], hidden) \o VisibleTextOfAll(kids, i + 1, hidden)
Occurrences(text) ==
    LET words == Fields(ToLower(text))
        token(i) == TrimSpace(MapWord(words[i]))
        tokens == {token(i) : i \in 1 .. Len(words)} \ {<< >>}
    IN  [t \in tokens |-> Cardinality({i \in 1 .. Len(words) : token(i) = t})]
ScriptStyleExclusion ==
    epc = "done" => eFeatures = Occurrences(VisibleText(eDoc, FALSE))

\* C11 witness: a style element in the head and a script element in the body
\* hold "Hi yo!", the script's sibling p holds "yo": the features are yo once.
ScriptStyleExclusionWitness ==
    /\ epc = "done"
    /\ eDoc = Page(<< ElementNode("style", << TextNode(<<"H","i"," ","y","o","!">>) >>) >>,
                   << ElementNode("script", << TextNode(<<"H","i"," ","y","o","!">>) >>),
                      ElementNode("p", << TextNode(<<"y","o">>) >>) >>)
    /\ DOMAIN eFeatures = { <<"y","o">> }
    /\ eFeatures[<<"y","o">>] = 1

\* C12: within one job the captures processSnapshot was started on are a
\* prefix of the list getSnapshots returned, in its order; a capture is
\* started only from the head of the loop, on the next position of the list,
\* when every capture started before has ended as skipped, stored or failed;
\* no position is started twice.
Ended(w, t) == t \in skipped[w] \cup DOMAIN wrote[w] \cup failedAt[w]
OrderSinglePass ==
    [][ \A w \in Slots :
          /\ Len(attempted'[w]) <= Len(snapshots'[w])
          /\ attempted'[w] = SubSeq(snapshots'[w], 1, Len(attempted'[w]))
          /\ Len(attempted'[w]) \in {idx'[w], idx'[w] + 1}
          /\ pc'[w] \in {"exists", "download", "store", "inc", "get"}
                => Len(attempted'[w]) = idx'[w] + 1
          /\ pc'[w] = "loop" => Len(attempted'[w]) = idx'[w]
          /\ (attempted'[w] # attempted[w] /\ pc[w] \notin {"idle", "done"})
                => /\ pc[w] = "loop" /\ pc'[w] = "exists"
                   /\ Len(attempted[w]) = idx[w]
                   /\ attempted'[w] = Append(attempted[w], snapshots[w][idx[w] + 1])
                   /\ \A i \in 1 .. idx[w] : Ended(w, snapshots[w][i])
          /\ (pc[w] \notin {"idle", "done"})
                => /\ snapshots'[w] = snapshots[w] \/ pc[w] = "enum"
                   /\ idx'[w] \in {idx[w], idx[w] + 1}
      ]_vars

\* C12 witness: a job over [T1, T2, T3] that skipped T1, failed T2, stored T3
\* and returned nil, each started once, in this order.
OrderSinglePassWitness ==
    \E w \in Slots :
        /\ pc[w] = "done" /\ outcome[w] = "nil"
        /\ snapshots[w] = Timestamps
        /\ attempted[w] = Timestamps
        /\ skipped[w] = {Timestamps[1]}
        /\ failedAt[w] = {Timestamps[2]}
        /\ DOMAIN wrote[w] = {Timestamps[3]}

\* C13: processSnapshot writes under the capture's key only as its last
\* step: after the existence check found the key absent, the fetch answered
\* 200 with an HTML-family content type and the features are not empty; a
\* capture that fails at an earlier step leaves the store as it was and is
\* counted as a failed capture.
HTMLFamily ==
    { << "T","E","X","T","/","H","T","M","L",";"," ","c","h","a","r","s","e","t",
         "=","u","t","f","-","8" >>,
      << "a","p","p","l","i","c","a","t","i","o","n","/","x","h","t","m","l","+",
         "x","m","l" >> }
GoodResponses ==
    {resp \in FetchResponses :
        resp.fault = "none" /\ resp.status = 200 /\ resp.contentType \in HTMLFamily}
FetchSucceedsOnGoodOnly ==
    \A resp \in FetchResponses :
        /\ resp \in GoodResponses
              => downloadSnapshot(resp) = [content |-> resp.body, err |-> "nil"]
        /\ resp \notin GoodResponses
              => /\ downloadSnapshot(resp).err # "nil"
                 /\ downloadSnapshot(resp).content = NoContent
EmptyDocs == {d \in DocNames : DOMAIN ExtractHTMLFeatures(HTMLParse(d)) = {}}
PersistLast ==
    [][ /\ FetchSucceedsOnGoodOnly
        /\ \A w \in Slots :
             /\ (pc'[w] = "download" /\ pc[w] # "download")
                   => pc[w] = "exists" /\ redis[SimhashKey(TheURL, Snap(w))] = Nil
             /\ (pc'[w] = "store" /\ pc[w] # "store")
                   => /\ pc[w] = "download"
                      /\ content'[w] \in {resp.body : resp \in GoodResponses}
             /\ (pc[w] = "store" /\ content[w].doc \in EmptyDocs)
                   => pc'[w] \in {"store", "inc"}
             /\ (pc'[w] = "inc" /\ pc[w] # "inc")
                   => pc[w] \in {"exists", "download", "store"} /\ redis' = redis
             /\ (pc[w] = "inc" /\ pc'[w] # "inc")
                   => /\ nFailed'[w] = nFailed[w] + 1
                      /\ failedAt'[w] = failedAt[w] \cup {Snap(w)}
                      /\ redis' = redis
        /\ redis' # redis
              => \E w \in Slots :
                    /\ pc[w] = "store" /\ pc'[w] = "loop"
                    /\ content[w].doc \notin EmptyDocs
                    /\ redis[SimhashKey(TheURL, Snap(w))] = Nil
                    /\ redis'[SimhashKey(TheURL, Snap(w))] # Nil
                    /\ \A k \in Keys \ {SimhashKey(TheURL, Snap(w))} : redis'[k] = redis[k]
      ]_vars

\* C13 witness: a job stored its first capture, and its second capture
\* failed, was counted as failed and left nothing in the store.
PersistLastWitness ==
    \E w \in Slots :
        /\ pc[w] = "get"
        /\ content[w] = NoContent
        /\ DOMAIN wrote[w] = {Timestamps[1]}
        /\ Stored(Timestamps[1]) # Nil
        /\ attempted[w] = << Timestamps[1], Timestamps[2] >>
        /\ failedAt[w] = {Timestamps[2]}
        /\ Stored(Timestamps[2]) = Nil

\* C14: a cancellation of the job's context is never counted as a failed
\* capture: no error that incrementErrors counts, and no error behind a
\* 'max errors reached', is the context's cancellation error, also when the
\* cancellation arrives while a store call given the context is under way.
CancellationNotCounted ==
    \A w \in Slots :
        (pc[w] \in {"inc", "get"} \/ outcome[w] = "max errors reached")
           => err[w] \notin CtxErrors

\* C15 as stated: with jobs running one after another, at every point of a
\* job downloadErrs is the number of that job's captures that have failed so
\* far: 0 when the job starts, whatever earlier jobs left; one more per failed
\* capture; unchanged by a skipped or stored capture; so never above
\* MaxErrors when MaxErrors >= 1.
ErrorAccountingSteps(w) ==
    /\ (pc[w] = "inc" /\ pc'[w] # "inc")
          => downloadErrs' = downloadErrs + 1 /\ nFailed'[w] = nFailed[w] + 1
    /\ (pc[w] \in {"exists", "store"} /\ pc'[w] = "loop")
          => downloadErrs' = downloadErrs /\ nFailed'[w] = nFailed[w]
    /\ (pc[w] # "inc" /\ pc'[w] \notin {"idle", "enum"} /\ pc[w] \notin {"idle", "done"})
          => downloadErrs' = downloadErrs
    /\ MaxErrors >= 1 => downloadErrs' <= MaxErrors
ErrorAccountingOriginal ==
    [][ \A w \in SeqSlots :
          /\ pc'[w] # "idle" => downloadErrs' = nFailed'[w]
          /\ ErrorAccountingSteps(w)
      ]_vars

\* C15, amended: ... at every point of a job whose payload was decoded ...
\* (a job whose payload is no JSON returns before the reset and leaves the
\* counter as the job before it left it).
ErrorAccounting ==
    [][ \A w \in SeqSlots :
          /\ (pc'[w] # "idle" /\ outcome'[w] # "json.Unmarshal failed")
                => downloadErrs' = nFailed'[w]
          /\ (pc'[w] = "enum" /\ pc[w] # "enum") => downloadErrs' = 0
          /\ ErrorAccountingSteps(w)
      ]_vars

\* C15 witness: MaxErrors = 2; a second job, started after a job that stored
\* a capture, has one failed capture of its own and the counter is 1.
ErrorAccountingWitness ==
    \E w \in SeqSlots :
        /\ jobs = 2
        /\ MaxErrors = 2
        /\ before[w] # {}
        /\ pc[w] = "loop"
        /\ idx[w] = 2
        /\ nFailed[w] = 1
        /\ downloadErrs = 1

\* C16: bit i of the result (bit 0 the least significant) is set exactly when
\* the sum over the distinct tokens of +weight (bit i of the token's digest,
\* counted from the most significant bit of the first byte, is 1) or -weight
\* (it is 0) is greater than zero; a sum of zero leaves the bit unset, and the
\* empty multiset gives 0.
DigestBit(digest, i) == ((digest[(i \div 8) + 1] * 2^(i % 8)) \div 128) % 2
RECURSIVE WeightedSum(_, _, _, _)
WeightedSum(sum512, features, tokens, i) ==
    IF tokens = {} THEN 0
    ELSE LET t == CHOOSE u \in tokens : TRUE
         IN  (IF DigestBit(sum512[t], i) = 1 THEN features[t] ELSE 0 - features[t])
             + WeightedSum(sum512, features, tokens \ {t}, i)
WeightedBitRule ==
    hpc = "done"
       => /\ \A i \in 0 .. (size - 1) :
                i \in simhash <=> WeightedSum(blake, hFeatures, DOMAIN hFeatures, i) > 0
          /\ \A i \in simhash : i < size
          /\ DOMAIN hFeatures = {} => simhash = {}

\* C16 witness: a call over at least two tokens with a bit whose sum is zero
\* (unset), a bit whose sum is positive (set) and one whose sum is negative.
WeightedBitRuleWitness ==
    /\ hpc = "done"
    /\ Cardinality(DOMAIN hFeatures) >= 2
    /\ \E i \in 0 .. (size - 1) :
          WeightedSum(blake, hFeatures, DOMAIN hFeatures, i) = 0 /\ i \notin simhash
    /\ \E i \in 0 .. (size - 1) :
          WeightedSum(blake, hFeatures, DOMAIN hFeatures, i) > 0 /\ i \in simhash
    /\ \E i \in 0 .. (size - 1) :
          WeightedSum(blake, hFeatures, DOMAIN hFeatures, i) < 0 /\ i \notin simhash

\* C17: whatever the interleaving of the requests for one url and year,
\* at most one task is enqueued (the task key does not expire in the model),
\* one request answers 'started' with that task's id, and every other request
\* that is answered 200 answers PENDING with that task's id.
SubmissionDedup ==
    /\ Len(queue) <= 1
    /\ \A r \in Requests :
          (rpc[r] = "done" /\ response[r].code = StatusOK)
             => /\ Len(queue) = 1
                /\ response[r].job_id = queue[1]
                /\ response[r].status \in {"started", "PENDING"}
    /\ \A r1, r2 \in Requests :
          (response[r1].status = "started" /\ response[r2].status = "started")
             => r1 = r2

\* C18: with two jobs processing the same capture at the same time, the
\* existence check and the write behave as one step: no two jobs are past
\* the check of the same key together (the content is fetched once), and no
\* key is written more than once.
ConcurrentWriters ==
    /\ \A k \in Keys : writes[k] <= 1
    /\ \A w1, w2 \in Slots :
          (/\ w1 # w2
           /\ pc[w1] \in {"download", "store"}
           /\ pc[w2] \in {"download", "store"})
             => Snap(w1) # Snap(w2)

\* C19: under fair scheduling, with every index query, fetch and store call
\* returning, every job that has started on its enumeration ends, with one
\* of the outcomes: an enumeration error, nil, 'max errors reached' or the
\* cancellation error; this also with two jobs at a time on the one Worker.
TerminalOutcomes == EnumErrors \cup {"nil", "max errors reached"} \cup CtxErrors
Termination ==
    \A w \in Slots :
        (pc[w] = "enum") ~> (pc[w] = "done" /\ outcome[w] \in TerminalOutcomes)

\* C19 witness: two jobs on the Worker at the same time have both ended, one
\* with 'max errors reached' and one cancelled after its first capture.
TerminationWitness ==
    /\ jobs = 2
    /\ pc[1] = "done" /\ pc[2] = "done"
    /\ outcome[1] = "max errors reached"
    /\ outcome[2] \in CtxErrors
    /\ Len(attempted[2]) = 1 /\ Len(snapshots[2]) = 2

====
